---- MODULE Spec2Model ----
(***************************************************************************)
(* Order fulfilment saga of temporal-order-orchestrator.                   *)
(*                                                                         *)
(* OrderWorkflow (temporal_app/workflows.py) is modelled as one coroutine  *)
(* whose position is pc; everything the coroutine executes between two     *)
(* awaits is one action, because signal handlers only run while the        *)
(* coroutine is parked.  ShippingWorkflow instances are the records of     *)
(* children.  payment_charged (temporal_app/functions.py) is modelled      *)
(* statement by statement over a payments table for the ledger claims.     *)
(*                                                                         *)
(* A step (activity) is a capability that returns, is retried, or fails    *)
(* into the workflow; which of these happens is not decided by the         *)
(* workflow code.  A run that raises is a run that has ended (pc =         *)
(* "failed").  Signals are handled only while the coroutine is parked, and *)
(* never between the entry into wait_condition and its first evaluation    *)
(* of the condition (pc = "wait0").                                        *)
(***************************************************************************)
EXTENDS Integers, Sequences, FiniteSets, TLC

\* ------------------------------------------------------------------ bounds
\* Attempts the activity executor makes for one step before the 4 s
\* schedule-to-close budget is spent and the step fails into the workflow.
MaxTries == 2
\* Distinct shipping addresses a caller may send with update_address.
NAddr == 2
\* Invocations of payment_charged, distinct payment tokens and distinct orders
\* (order o carries items whose quantities sum to o).
NInv == 2
NTok == 2
NOrd == 2

\* -------------------------------------------------------- program constants
APPROVAL_TIMEOUT == 30
max_shipping_retries == 3

NONE == "None"
\* updated_address is None, or one of the addresses callers send.
NoAddress == 0
Addresses == 1..NAddr
\* The local `order` before receive_order_activity has returned.
NoOrder == [order_id |-> NONE, items |-> 0, address |-> NoAddress]

\* order_received's return value.
ReceivedOrder == [order_id |-> "O1", items |-> 1, address |-> NoAddress]

\* Texts str(e) takes in the workflow's except clauses.
ActivityErrorText(step) == "ActivityError: " \o step
TimeoutErrorText == "TimeoutError"
AttemptErrorText(k) ==
    CASE k = 1 -> "Shipping attempt 1 failed"
      [] k = 2 -> "Shipping attempt 2 failed"
      [] k = 3 -> "Shipping attempt 3 failed"
      [] OTHER -> "Shipping attempt n failed"
ExhaustedErrorText == "Shipping failed after 3 attempts"

Phases ==
    {"INIT", "RECEIVING", "VALIDATING", "AWAITING_MANUAL_APPROVAL",
     "CHARGING_PAYMENT", "SHIPPING", "SHIPPING_FAILED", "MARKING_SHIPPED",
     "COMPLETED", "CANCELLED"}

VARIABLES
    state,                  \* OrderWorkflow.state
    last_error,             \* OrderWorkflow.last_error
    order_cancelled,        \* OrderWorkflow.order_cancelled
    manual_review_approved, \* OrderWorkflow.manual_review_approved
    updated_address,        \* OrderWorkflow.updated_address
    pc,                     \* where OrderWorkflow.run is parked
    order,                  \* local `order` of run: the payload
    attempt,                \* loop variable of the shipping retry loop
    shipping_result,        \* local `shipping_result` of run
    result,                 \* value run returned
    failure,                \* text of the exception run raised
    tries,                  \* failed attempts of the step in flight
    waited,                 \* time units spent in wait_condition
    children,               \* ShippingWorkflow instances started, in order
    chargeCalls,            \* charge_payment_activity invocations scheduled
    cancelSeenIn,           \* phases in which cancel_order was delivered
    approvedIn,             \* phase in which approve_order was first delivered
    lastAccepted,           \* address of the update_address accepted last
    response,               \* what the last signal send gave its sender
    inv,                    \* payment_charged invocations and their locals
    payments,               \* payments table: token -> committed rows
    paidUpdates,            \* token -> committed UPDATE orders SET state = PAID
    chargedEvents,          \* token -> committed PAYMENT_CHARGED event rows
    fn,                     \* function an activity execution runs
    payload,                \* the order that execution was given
    clock,                  \* time since the execution was scheduled
    att,                    \* its attempts, in order
    exec,                   \* what the workflow has been told about it
    eventRows,              \* event rows the function has committed
    orderRow,               \* orders.state of the order's row (None: no row)
    asleep,                 \* functions with an abandoned attempt still to write
    shipTry,                \* shipping attempts that failed before this one
    elapsed                 \* time since the run was started with a run timeout

sagaVars ==
    <<state, last_error, order_cancelled, manual_review_approved,
      updated_address, pc, order, attempt, shipping_result, result, failure,
      tries, waited, children, chargeCalls, cancelSeenIn, approvedIn,
      lastAccepted, response>>
dbVars == <<inv, payments, paidUpdates, chargedEvents>>
rowVars == <<orderRow, asleep, shipTry>>
execVars == <<fn, payload, clock, att, exec, eventRows, rowVars>>
stepVars == <<execVars, elapsed>>
vars == <<sagaVars, dbVars, stepVars>>

\* ------------------------------------------------------------------- Init
InitSaga ==
    /\ state = "INIT"
    /\ last_error = NONE
    /\ order_cancelled = FALSE
    /\ manual_review_approved = FALSE
    /\ updated_address = NoAddress
    /\ pc = "start"
    /\ order = NoOrder
    /\ attempt = 0
    /\ shipping_result = NONE
    /\ result = NONE
    /\ failure = NONE
    /\ tries = 0
    /\ waited = 0
    /\ children = <<>>
    /\ chargeCalls = 0
    /\ cancelSeenIn = {}
    /\ approvedIn = NONE
    /\ lastAccepted = NoAddress
    /\ response = NONE

Invocations == 1..NInv
Tokens == 1..NTok
Orders == 1..NOrd
NoRet == [status |-> NONE, amount |-> 0]
IdleInv == [pc |-> "idle", token |-> 0, order |-> 0, amount |-> 0, ret |-> NoRet]

InitDB ==
    /\ inv = [i \in Invocations |-> IdleInv]
    /\ payments = [t \in Tokens |-> <<>>]
    /\ paidUpdates = [t \in Tokens |-> 0]
    /\ chargedEvents = [t \in Tokens |-> 0]

\* No activity execution is looked at on its own.
InitStepIdle ==
    /\ fn = "order_received"
    /\ payload = ReceivedOrder
    /\ clock = 0
    /\ att = <<>>
    /\ exec = "running"
    /\ eventRows = 0
    /\ orderRow = NONE
    /\ asleep = {}
    /\ shipTry = 0
    /\ elapsed = 0

Init == InitSaga /\ InitDB /\ InitStepIdle

\* --------------------------------------------------------------- helpers
sigVars ==
    <<order_cancelled, manual_review_approved, updated_address,
      cancelSeenIn, approvedIn, lastAccepted, response>>

\* The coroutine has returned or raised: the workflow execution is closed.
Ended == pc \in {"done", "failed"}
\* Variant: a closed execution still takes signals and runs their handlers.
ParkedOrEnded ==
    pc \in {"start", "receive", "validate", "wait", "charge", "ship",
            "sleep", "mark", "done", "failed"}

\* The coroutine is parked at an await (or not yet started), so a delivered
\* signal's handler runs now.
Parked ==
    pc \in {"start", "receive", "validate", "wait", "charge", "ship",
            "sleep", "mark"}

\* One resumption of run: the assignments to state / last_error and the way
\* the coroutine parks, returns or raises.
Step(st, p, le, res, fl) ==
    /\ state' = st
    /\ pc' = p
    /\ last_error' = le
    /\ result' = res
    /\ failure' = fl
    /\ tries' = 0

\* self.state = "CANCELLED"; return "CANCELLED"
ReturnCancelled == Step("CANCELLED", "done", last_error, "CANCELLED", failure)

\* Variant: the except clause also moves the phase to a FAILED value.
RaiseSetsFailed(text) == Step("FAILED", "failed", text, result, text)

\* Variant: the except clause re-raises without recording the error.
RaiseUnrecorded(text) == Step(state, "failed", last_error, result, text)

\* except Exception as e: self.last_error = str(e); raise
Raise(text) == Step(state, "failed", text, result, text)

\* ------------------------------------------------------- signal handlers
\* Variant: cancel_order still accepts a cancel while payment is charged.
CancelRejectedInShipping == {"SHIPPING", "MARKING_SHIPPED", "COMPLETED"}

CancelRejectedIn == {"SHIPPING", "MARKING_SHIPPED", "COMPLETED", "CHARGING_PAYMENT"}

\* Variant: an accepted cancel ends the run on the spot, in mid-step.
cancel_orderImmediate ==
    /\ Parked
    /\ response' = "sent"
    /\ order_cancelled' =
           IF state \notin CancelRejectedIn THEN TRUE ELSE order_cancelled
    /\ cancelSeenIn' = cancelSeenIn \cup {state}
    /\ IF state \notin CancelRejectedIn
       THEN ReturnCancelled
       ELSE UNCHANGED <<state, last_error, pc, result, failure, tries>>
    /\ UNCHANGED <<manual_review_approved, updated_address, approvedIn,
                   lastAccepted>>
    /\ UNCHANGED <<order, attempt, shipping_result, waited, children,
                   chargeCalls>>
    /\ UNCHANGED <<dbVars, stepVars>>

cancel_order ==
    /\ Parked
    /\ response' = "sent"
    /\ order_cancelled' =
           IF state \notin CancelRejectedIn THEN TRUE ELSE order_cancelled
    /\ cancelSeenIn' = cancelSeenIn \cup {state}
    /\ UNCHANGED <<manual_review_approved, updated_address, approvedIn,
                   lastAccepted>>
    /\ UNCHANGED <<state, last_error, pc, order, attempt, shipping_result,
                   result, failure, tries, waited, children, chargeCalls>>
    /\ UNCHANGED <<dbVars, stepVars>>

AddressRejectedIn == {"SHIPPING", "MARKING_SHIPPED", "COMPLETED"}

\* Variant: the first accepted address is kept, later ones are dropped.
update_addressFirstWins(address) ==
    /\ Parked
    /\ response' = "sent"
    /\ updated_address' =
           IF state \notin AddressRejectedIn /\ updated_address = NoAddress
           THEN address ELSE updated_address
    /\ lastAccepted' =
           IF state \notin AddressRejectedIn THEN address ELSE lastAccepted
    /\ UNCHANGED <<order_cancelled, manual_review_approved, cancelSeenIn,
                   approvedIn>>
    /\ UNCHANGED <<state, last_error, pc, order, attempt, shipping_result,
                   result, failure, tries, waited, children, chargeCalls>>
    /\ UNCHANGED <<dbVars, stepVars>>

update_address(address) ==
    /\ Parked
    /\ response' = "sent"
    /\ updated_address' =
           IF state \notin AddressRejectedIn THEN address ELSE updated_address
    /\ lastAccepted' =
           IF state \notin AddressRejectedIn THEN address ELSE lastAccepted
    /\ UNCHANGED <<order_cancelled, manual_review_approved, cancelSeenIn,
                   approvedIn>>
    /\ UNCHANGED <<state, last_error, pc, order, attempt, shipping_result,
                   result, failure, tries, waited, children, chargeCalls>>
    /\ UNCHANGED <<dbVars, stepVars>>

\* Variant: approve is honoured only in the approval wait, as cancel is
\* honoured only in some phases.
approve_orderGuarded ==
    /\ Parked
    /\ response' = "sent"
    /\ manual_review_approved' =
           IF state = "AWAITING_MANUAL_APPROVAL"
           THEN TRUE ELSE manual_review_approved
    /\ approvedIn' = IF approvedIn = NONE THEN state ELSE approvedIn
    /\ UNCHANGED <<order_cancelled, updated_address, cancelSeenIn,
                   lastAccepted>>
    /\ UNCHANGED <<state, last_error, pc, order, attempt, shipping_result,
                   result, failure, tries, waited, children, chargeCalls>>
    /\ UNCHANGED <<dbVars, stepVars>>

approve_order ==
    /\ Parked
    /\ response' = "sent"
    /\ manual_review_approved' = TRUE
    /\ approvedIn' = IF approvedIn = NONE THEN state ELSE approvedIn
    /\ UNCHANGED <<order_cancelled, updated_address, cancelSeenIn,
                   lastAccepted>>
    /\ UNCHANGED <<state, last_error, pc, order, attempt, shipping_result,
                   result, failure, tries, waited, children, chargeCalls>>
    /\ UNCHANGED <<dbVars, stepVars>>

\* A signal sent after run has returned or raised: the execution is closed,
\* handle.signal raises, no handler runs, and the endpoint's except clause
\* answers with HTTP 500.
signal_refused ==
    /\ Ended
    /\ response' = "error"
    /\ UNCHANGED <<order_cancelled, manual_review_approved, updated_address,
                   cancelSeenIn, approvedIn, lastAccepted>>
    /\ UNCHANGED <<state, last_error, pc, order, attempt, shipping_result,
                   result, failure, tries, waited, children, chargeCalls>>
    /\ UNCHANGED <<dbVars, stepVars>>

\* Variant: the query reports the approval flag as the cancelled flag.
statusSwapped ==
    [state |-> state, last_error |-> last_error,
     cancelled |-> manual_review_approved,
     updated_address |-> updated_address,
     manual_review_approved |-> manual_review_approved]

\* status(): the query reads the five fields and writes nothing.
status ==
    [state |-> state, last_error |-> last_error, cancelled |-> order_cancelled,
     updated_address |-> updated_address,
     manual_review_approved |-> manual_review_approved]

\* A status query is served: the handler builds its answer from the instance
\* as it is, also before run has started and after it has ended.
status_query ==
    /\ DOMAIN status = {"state", "last_error", "cancelled", "updated_address",
                        "manual_review_approved"}
    /\ UNCHANGED vars

\* ------------------------------------------------------- OrderWorkflow.run
\* Step 1: self.state = "RECEIVING"; await receive_order_activity
RunStart ==
    /\ pc = "start"
    /\ Step("RECEIVING", "receive", last_error, result, failure)
    /\ UNCHANGED <<order, attempt, shipping_result, waited, children,
                   chargeCalls>>
    /\ UNCHANGED sigVars /\ UNCHANGED <<dbVars, stepVars>>

StepPcs == {"receive", "validate", "charge", "mark"}

\* An attempt of the step in flight raised (flaky_call) and the executor
\* schedules the next attempt.
StepRetry ==
    /\ pc \in StepPcs
    /\ tries + 1 < MaxTries
    /\ tries' = tries + 1
    /\ chargeCalls' = IF pc = "charge" THEN chargeCalls + 1 ELSE chargeCalls
    /\ UNCHANGED <<state, last_error, pc, order, attempt, shipping_result,
                   result, failure, waited, children>>
    /\ UNCHANGED sigVars /\ UNCHANGED <<dbVars, stepVars>>

\* The step in flight timed out or spent its attempts: ActivityError reaches
\* run, whose except clause records it and re-raises.
StepFail ==
    /\ pc \in StepPcs
    /\ Raise(ActivityErrorText(pc))
    /\ UNCHANGED <<order, attempt, shipping_result, waited, children,
                   chargeCalls>>
    /\ UNCHANGED sigVars /\ UNCHANGED <<dbVars, stepVars>>

\* Variant: no cancellation check after the receive step.
AfterReceiveNoCheck ==
    Step("VALIDATING", "validate", last_error, result, failure)

\* Variant: run goes from the receive step straight to the approval wait.
AfterReceiveSkipsValidate ==
    IF order_cancelled
    THEN ReturnCancelled
    ELSE Step("AWAITING_MANUAL_APPROVAL", "wait0", last_error, result, failure)

\* if self.order_cancelled: ... return "CANCELLED"; else Step 2 (validate)
AfterReceive ==
    IF order_cancelled
    THEN ReturnCancelled
    ELSE Step("VALIDATING", "validate", last_error, result, failure)

ReceiveOK ==
    /\ pc = "receive"
    /\ order' = ReceivedOrder
    /\ AfterReceive
    /\ UNCHANGED <<attempt, shipping_result, waited, children, chargeCalls>>
    /\ UNCHANGED sigVars /\ UNCHANGED <<dbVars, stepVars>>

\* if self.order_cancelled: ... return "CANCELLED"; else enter the approval wait
AfterValidate ==
    IF order_cancelled
    THEN ReturnCancelled
    ELSE Step("AWAITING_MANUAL_APPROVAL", "wait0", last_error, result, failure)

ValidateOK ==
    /\ pc = "validate"
    /\ AfterValidate
    /\ waited' = 0
    /\ UNCHANGED <<order, attempt, shipping_result, children, chargeCalls>>
    /\ UNCHANGED sigVars /\ UNCHANGED <<dbVars, stepVars>>

\* Variant: the wait only watches the approval flag.
WaitConditionApprovalOnly == manual_review_approved

\* lambda: self.manual_review_approved or self.order_cancelled
WaitCondition == manual_review_approved \/ order_cancelled

\* Variant: the wait parks without looking at the flags on entry.
WaitParkAlways ==
    /\ pc = "wait0"
    /\ pc' = "wait"
    /\ UNCHANGED <<state, last_error, order, attempt, shipping_result, result,
                   failure, tries, waited, children, chargeCalls>>
    /\ UNCHANGED sigVars /\ UNCHANGED <<dbVars, stepVars>>

\* wait_condition found its condition false on entry: the coroutine parks.
WaitPark ==
    /\ pc = "wait0"
    /\ ~WaitCondition
    /\ pc' = "wait"
    /\ UNCHANGED <<state, last_error, order, attempt, shipping_result, result,
                   failure, tries, waited, children, chargeCalls>>
    /\ UNCHANGED sigVars /\ UNCHANGED <<dbVars, stepVars>>

\* Variant: the pending override is not merged into the order.
MergedOrderIgnored == order

\* if self.updated_address: order["address"] = self.updated_address
MergedOrder ==
    IF updated_address # NoAddress
    THEN [order EXCEPT !.address = updated_address]
    ELSE order

\* Variant: the charge step is invoked before the cancellation check.
AfterWaitChargeFirst ==
    IF order_cancelled
    THEN ReturnCancelled /\ chargeCalls' = chargeCalls + 1 /\ UNCHANGED order
    ELSE /\ order' = MergedOrder
         /\ Step("CHARGING_PAYMENT", "charge", last_error, result, failure)
         /\ chargeCalls' = chargeCalls + 1

\* Variant: the approval flag is looked at first and wins over a cancel.
AfterWaitApprovalFirst ==
    IF order_cancelled /\ ~manual_review_approved
    THEN ReturnCancelled /\ UNCHANGED <<order, chargeCalls>>
    ELSE /\ order' = MergedOrder
         /\ Step("CHARGING_PAYMENT", "charge", last_error, result, failure)
         /\ chargeCalls' = chargeCalls + 1

\* Variant: no cancellation check after the wait.
AfterWaitNoCheck ==
    /\ order' = MergedOrder
    /\ Step("CHARGING_PAYMENT", "charge", last_error, result, failure)
    /\ chargeCalls' = chargeCalls + 1

\* The code after wait_condition returns: the cancel check, the address
\* merge, and Step 3 (charge payment).
AfterWait ==
    IF order_cancelled
    THEN ReturnCancelled /\ UNCHANGED <<order, chargeCalls>>
    ELSE /\ order' = MergedOrder
         /\ Step("CHARGING_PAYMENT", "charge", last_error, result, failure)
         /\ chargeCalls' = chargeCalls + 1

\* The condition holds: the wait's timer is cancelled and run goes on.
WaitResume ==
    /\ pc \in {"wait0", "wait"}
    /\ WaitCondition
    /\ AfterWait
    /\ waited' = 0
    /\ UNCHANGED <<attempt, shipping_result, children>>
    /\ UNCHANGED sigVars /\ UNCHANGED <<dbVars, stepVars>>

\* One time unit passes while the coroutine is parked in wait_condition.
Tick ==
    /\ pc = "wait"
    /\ ~WaitCondition
    /\ waited < APPROVAL_TIMEOUT
    /\ waited' = waited + 1
    /\ UNCHANGED <<state, last_error, pc, order, attempt, shipping_result,
                   result, failure, tries, children, chargeCalls>>
    /\ UNCHANGED sigVars /\ UNCHANGED <<dbVars, stepVars>>

\* Variant: the timeout is swallowed and run goes on to charge payment.
OnWaitTimeoutSwallowed ==
    /\ order' = MergedOrder
    /\ Step("CHARGING_PAYMENT", "charge", last_error, result, failure)
    /\ chargeCalls' = chargeCalls + 1

\* Variant: the timeout is turned into a cancellation.
OnWaitTimeoutCancelled == ReturnCancelled /\ UNCHANGED <<order, chargeCalls>>

\* Variant: the timeout is swallowed and the wait starts over.
OnWaitTimeoutRewait ==
    /\ Step(state, "wait", last_error, result, failure)
    /\ UNCHANGED <<order, chargeCalls>>

\* What run does when wait_condition raises TimeoutError.
OnWaitTimeout == Raise(TimeoutErrorText) /\ UNCHANGED <<order, chargeCalls>>

WaitTimeout ==
    /\ pc = "wait"
    /\ ~WaitCondition
    /\ waited = APPROVAL_TIMEOUT
    /\ OnWaitTimeout
    /\ UNCHANGED <<attempt, shipping_result, waited, children>>
    /\ UNCHANGED sigVars /\ UNCHANGED <<dbVars, stepVars>>

\* Variant: every attempt is started under the identity of the first.
NewChildSameId(k) ==
    [id |-> 0, state |-> "INIT", last_error |-> NONE, pc |-> "start",
     order |-> order, result |-> NONE]

\* ---------------------------------------------------------- shipping phase
\* A ShippingWorkflow instance as __init__ leaves it, started by
\* execute_child_workflow(args=[order], id=f"{order_id}-shipping-{attempt}").
NewChild(k) ==
    [id |-> k, state |-> "INIT", last_error |-> NONE, pc |-> "start",
     order |-> order, result |-> NONE]

\* The ShippingWorkflow instance the parent is awaiting.
cur == children[Len(children)]
SetCur(c) == children' = [children EXCEPT ![Len(children)] = c]

\* Step 4: self.state = "SHIPPING"; first pass of the retry loop.
AfterCharge ==
    /\ Step("SHIPPING", "ship", last_error, result, failure)
    /\ shipping_result' = NONE
    /\ attempt' = 0
    /\ children' = Append(children, NewChild(0))

ChargeOK ==
    /\ pc = "charge"
    /\ AfterCharge
    /\ UNCHANGED <<order, waited, chargeCalls>>
    /\ UNCHANGED sigVars /\ UNCHANGED <<dbVars, stepVars>>

shipFrame ==
    <<state, last_error, pc, order, attempt, shipping_result, result, failure,
      waited, chargeCalls>>

\* ShippingWorkflow.run: self.state = "PREPARING_PACKAGE"; await prepare
ShipStart ==
    /\ pc = "ship" /\ cur.pc = "start"
    /\ SetCur([cur EXCEPT !.state = "PREPARING_PACKAGE", !.pc = "prepare"])
    /\ tries' = 0
    /\ UNCHANGED shipFrame /\ UNCHANGED sigVars /\ UNCHANGED <<dbVars, stepVars>>

\* Variant: the sub-saga returns once the package is prepared.
ShipPrepareOKReturns ==
    /\ pc = "ship" /\ cur.pc = "prepare"
    /\ SetCur([cur EXCEPT !.state = "DONE", !.pc = "done",
                          !.result = "DISPATCHED"])
    /\ tries' = 0
    /\ UNCHANGED shipFrame /\ UNCHANGED sigVars /\ UNCHANGED <<dbVars, stepVars>>

\* prepare returned: self.state = "DISPATCHING"; await dispatch
ShipPrepareOK ==
    /\ pc = "ship" /\ cur.pc = "prepare"
    /\ SetCur([cur EXCEPT !.state = "DISPATCHING", !.pc = "dispatch"])
    /\ tries' = 0
    /\ UNCHANGED shipFrame /\ UNCHANGED sigVars /\ UNCHANGED <<dbVars, stepVars>>

\* dispatch returned: self.state = "DONE"; return "DISPATCHED"
ShipDispatchOK ==
    /\ pc = "ship" /\ cur.pc = "dispatch"
    /\ SetCur([cur EXCEPT !.state = "DONE", !.pc = "done",
                          !.result = "DISPATCHED"])
    /\ tries' = 0
    /\ UNCHANGED shipFrame /\ UNCHANGED sigVars /\ UNCHANGED <<dbVars, stepVars>>

\* An attempt of the child's step in flight raised and is retried.
ShipStepRetry ==
    /\ pc = "ship" /\ cur.pc \in {"prepare", "dispatch"}
    /\ tries + 1 < MaxTries
    /\ tries' = tries + 1
    /\ UNCHANGED children
    /\ UNCHANGED shipFrame /\ UNCHANGED sigVars /\ UNCHANGED <<dbVars, stepVars>>

\* Variant: the except clause records the error and returns instead of
\* raising.
ShipStepFailSwallowed ==
    /\ pc = "ship" /\ cur.pc \in {"prepare", "dispatch"}
    /\ SetCur([cur EXCEPT !.last_error = ActivityErrorText(cur.pc),
                          !.pc = "done", !.result = "DISPATCHED"])
    /\ tries' = 0
    /\ UNCHANGED shipFrame /\ UNCHANGED sigVars /\ UNCHANGED <<dbVars, stepVars>>

\* The child's step failed: except Exception as e: self.last_error = str(e); raise
ShipStepFail ==
    /\ pc = "ship" /\ cur.pc \in {"prepare", "dispatch"}
    /\ SetCur([cur EXCEPT !.last_error = ActivityErrorText(cur.pc),
                          !.pc = "failed"])
    /\ tries' = 0
    /\ UNCHANGED shipFrame /\ UNCHANGED sigVars /\ UNCHANGED <<dbVars, stepVars>>

\* Variant: the value execute_child_workflow returned is not kept.
OnChildDoneNoResult ==
    /\ Step("MARKING_SHIPPED", "mark", last_error, result, failure)
    /\ UNCHANGED <<shipping_result, attempt, children>>

\* execute_child_workflow returned: break; Step 5: self.state = "MARKING_SHIPPED"
OnChildDone ==
    /\ Step("MARKING_SHIPPED", "mark", last_error, result, failure)
    /\ shipping_result' = cur.result
    /\ UNCHANGED <<attempt, children>>

\* Variant: exhaustion raises without moving the phase to SHIPPING_FAILED.
OnChildFailedStaysShipping ==
    IF attempt < max_shipping_retries - 1
    THEN /\ Step(state, "sleep", AttemptErrorText(attempt + 1), result, failure)
         /\ UNCHANGED <<attempt, shipping_result, children>>
    ELSE /\ Step(state, "failed", ExhaustedErrorText, result,
                 ExhaustedErrorText)
         /\ UNCHANGED <<attempt, shipping_result, children>>

\* Variant: the loop allows one more pass before giving up.
OnChildFailedOneMore ==
    IF attempt < max_shipping_retries
    THEN /\ Step(state, "sleep", AttemptErrorText(attempt + 1), result, failure)
         /\ UNCHANGED <<attempt, shipping_result, children>>
    ELSE /\ Step("SHIPPING_FAILED", "failed", ExhaustedErrorText, result,
                 ExhaustedErrorText)
         /\ UNCHANGED <<attempt, shipping_result, children>>

\* except ChildWorkflowError: record the attempt's error, then sleep before
\* the next pass, or on the last pass set SHIPPING_FAILED and raise (the outer
\* except clause overwrites last_error with the raised text).
OnChildFailed ==
    IF attempt < max_shipping_retries - 1
    THEN /\ Step(state, "sleep", AttemptErrorText(attempt + 1), result, failure)
         /\ UNCHANGED <<attempt, shipping_result, children>>
    ELSE /\ Step("SHIPPING_FAILED", "failed", ExhaustedErrorText, result,
                 ExhaustedErrorText)
         /\ UNCHANGED <<attempt, shipping_result, children>>

ChildDone ==
    /\ pc = "ship" /\ cur.pc = "done"
    /\ OnChildDone
    /\ UNCHANGED <<order, waited, chargeCalls>>
    /\ UNCHANGED sigVars /\ UNCHANGED <<dbVars, stepVars>>

ChildFailed ==
    /\ pc = "ship" /\ cur.pc = "failed"
    /\ OnChildFailed
    /\ UNCHANGED <<order, waited, chargeCalls>>
    /\ UNCHANGED sigVars /\ UNCHANGED <<dbVars, stepVars>>

\* workflow.sleep(2 s) elapsed: next pass of the loop starts a new child.
RetrySleepDone ==
    /\ pc = "sleep"
    /\ Step(state, "ship", last_error, result, failure)
    /\ attempt' = attempt + 1
    /\ children' = Append(children, NewChild(attempt + 1))
    /\ UNCHANGED <<order, shipping_result, waited, chargeCalls>>
    /\ UNCHANGED sigVars /\ UNCHANGED <<dbVars, stepVars>>

\* Variant: run returns after the mark step without setting COMPLETED.
AfterMarkStaysMarking ==
    Step(state, "done", last_error, shipping_result, failure)

\* Variant: a run that completes clears the error of earlier attempts.
AfterMarkClearsError ==
    Step("COMPLETED", "done", NONE, shipping_result, failure)

\* mark_order_shipped returned: self.state = "COMPLETED"; return shipping_result
AfterMark == Step("COMPLETED", "done", last_error, shipping_result, failure)

MarkOK ==
    /\ pc = "mark"
    /\ AfterMark
    /\ UNCHANGED <<order, attempt, shipping_result, waited, children,
                   chargeCalls>>
    /\ UNCHANGED sigVars /\ UNCHANGED <<dbVars, stepVars>>

\* ------------------------------------------------------------ saga spec
Signal ==
    \/ cancel_order
    \/ approve_order
    \/ \E a \in Addresses : update_address(a)
    \/ signal_refused

RunStep ==
    \/ RunStart
    \/ StepRetry
    \/ StepFail
    \/ ReceiveOK
    \/ ValidateOK
    \/ WaitPark
    \/ WaitResume
    \/ Tick
    \/ WaitTimeout
    \/ ChargeOK
    \/ ShipStart
    \/ ShipPrepareOK
    \/ ShipDispatchOK
    \/ ShipStepRetry
    \/ ShipStepFail
    \/ ChildDone
    \/ ChildFailed
    \/ RetrySleepDone
    \/ MarkOK

Next == Signal \/ RunStep \/ status_query

Spec == Init /\ [][Next]_vars

\* Steps, child workflows and timers always make progress; signals need not
\* ever be sent.
FairSpec == Spec /\ WF_vars(RunStep)

\* ------------------------------------------------- payment_charged (ledger)
\* charge_payment_activity starts payment_charged(order, payment_id).
ChargeInvoke(i, tok, o) ==
    /\ inv[i].pc = "idle"
    /\ inv' = [inv EXCEPT ![i] = [IdleInv EXCEPT !.pc = "flaky", !.token = tok,
                                                 !.order = o]]
    /\ UNCHANGED <<payments, paidUpdates, chargedEvents>>
    /\ UNCHANGED <<sagaVars, stepVars>>

\* flaky_call raises RuntimeError.
ChargeFlakyRaise(i) ==
    /\ inv[i].pc = "flaky"
    /\ inv' = [inv EXCEPT ![i].pc = "raised"]
    /\ UNCHANGED <<payments, paidUpdates, chargedEvents>>
    /\ UNCHANGED <<sagaVars, stepVars>>

\* sum(i.get("qty", 1) for i in order.get("items", []))
OrderAmount(o) == o

\* flaky_call returns (at once or after its sleep); amount is computed and
\* the transaction begins.
ChargeFlakyPass(i) ==
    /\ inv[i].pc = "flaky"
    /\ inv' = [inv EXCEPT ![i].pc = "select",
                          ![i].amount = OrderAmount(inv[i].order)]
    /\ UNCHANGED <<payments, paidUpdates, chargedEvents>>
    /\ UNCHANGED <<sagaVars, stepVars>>

\* Variant: the idempotent branch reports the amount it computed itself.
StoredResultComputed(i, row) == [status |-> row.status, amount |-> inv[i].amount]

\* if row: return {"status": row.status, "amount": row.amount}
StoredResult(i, row) == [status |-> row.status, amount |-> row.amount]

\* Variant: the existence check is skipped and the INSERT always follows.
ChargeSelectBlind(i) ==
    /\ inv[i].pc = "select"
    /\ inv' = [inv EXCEPT ![i].pc = "insert"]
    /\ UNCHANGED <<payments, paidUpdates, chargedEvents>>
    /\ UNCHANGED <<sagaVars, stepVars>>

\* SELECT status, amount FROM payments WHERE payment_id = :pid, one_or_none()
ChargeSelect(i) ==
    /\ inv[i].pc = "select"
    /\ LET rows == payments[inv[i].token] IN
       inv' = [inv EXCEPT ![i] =
                 CASE Len(rows) = 0 -> [@ EXCEPT !.pc = "insert"]
                   [] Len(rows) = 1 ->
                        [@ EXCEPT !.pc = "returned",
                                  !.ret = StoredResult(i, rows[1])]
                   [] OTHER -> [@ EXCEPT !.pc = "raised"]]
    /\ UNCHANGED <<payments, paidUpdates, chargedEvents>>
    /\ UNCHANGED <<sagaVars, stepVars>>

\* The payments table admits one row per payment_id: an INSERT of a token
\* that has a committed row is refused, and one that meets another
\* transaction's uncommitted row for the token waits for that transaction.
TokenCommitted(tok) == payments[tok] # <<>>
TokenPending(i, tok) ==
    \E j \in Invocations \ {i} :
        inv[j].token = tok /\ inv[j].pc \in {"update", "event", "commit"}

\* INSERT INTO payments (payment_id, order_id, status, amount)
ChargeInsert(i) ==
    /\ inv[i].pc = "insert"
    /\ ~TokenPending(i, inv[i].token)
    /\ inv' = [inv EXCEPT ![i].pc =
                 IF TokenCommitted(inv[i].token) THEN "raised" ELSE "update"]
    /\ UNCHANGED <<payments, paidUpdates, chargedEvents>>
    /\ UNCHANGED <<sagaVars, stepVars>>

\* UPDATE orders SET state = 'PAID', inside the transaction.
ChargeUpdate(i) ==
    /\ inv[i].pc = "update"
    /\ inv' = [inv EXCEPT ![i].pc = "event"]
    /\ UNCHANGED <<payments, paidUpdates, chargedEvents>>
    /\ UNCHANGED <<sagaVars, stepVars>>

\* INSERT INTO events ... PAYMENT_CHARGED, inside the transaction.
ChargeEvent(i) ==
    /\ inv[i].pc = "event"
    /\ inv' = [inv EXCEPT ![i].pc = "commit"]
    /\ UNCHANGED <<payments, paidUpdates, chargedEvents>>
    /\ UNCHANGED <<sagaVars, stepVars>>

\* The row the INSERT writes.
NewPayment(i) ==
    [payment_id |-> inv[i].token, order_id |-> inv[i].order,
     status |-> "CHARGED", amount |-> inv[i].amount]

\* return {"status": "CHARGED", "amount": amount}
FreshResult(i) == [status |-> "CHARGED", amount |-> inv[i].amount]

\* The with block ends: the transaction commits, then the function returns.
ChargeCommit(i) ==
    /\ inv[i].pc = "commit"
    /\ payments' = [payments EXCEPT ![inv[i].token] = Append(@, NewPayment(i))]
    /\ paidUpdates' = [paidUpdates EXCEPT ![inv[i].token] = @ + 1]
    /\ chargedEvents' = [chargedEvents EXCEPT ![inv[i].token] = @ + 1]
    /\ inv' = [inv EXCEPT ![i].pc = "returned", ![i].ret = FreshResult(i)]
    /\ UNCHANGED <<sagaVars, stepVars>>

\* A statement of the transaction fails (connection lost): db.begin() rolls
\* back and the exception leaves payment_charged.
ChargeAbort(i) ==
    /\ inv[i].pc \in {"select", "insert", "update", "event", "commit"}
    /\ inv' = [inv EXCEPT ![i].pc = "raised"]
    /\ UNCHANGED <<payments, paidUpdates, chargedEvents>>
    /\ UNCHANGED <<sagaVars, stepVars>>

NextCharge ==
    \E i \in Invocations :
        \/ \E tok \in Tokens, o \in Orders : ChargeInvoke(i, tok, o)
        \/ ChargeFlakyRaise(i)
        \/ ChargeFlakyPass(i)
        \/ ChargeSelect(i)
        \/ ChargeInsert(i)
        \/ ChargeUpdate(i)
        \/ ChargeEvent(i)
        \/ ChargeCommit(i)
        \/ ChargeAbort(i)

SpecCharge == Init /\ [][NextCharge]_vars

\* ------------------------------------------- one activity execution (steps)
\* An activity execution as the executor runs it under activity_opts(): the
\* attempts of one of the step functions (each is flaky_call, then its
\* writes in one transaction), the two timeouts, and what the workflow is
\* told.  An attempt that was given up on is not stopped: the coroutine goes
\* on and its writes still commit.
ACTIVITY_START_TO_CLOSE == 4
\* Variant: the execution's budget leaves room for an attempt after one that
\* timed out.
ScheduleToCloseTwice == ACTIVITY_START_TO_CLOSE + ACTIVITY_START_TO_CLOSE
ACTIVITY_SCHEDULE_TO_CLOSE == 4
\* await asyncio.sleep(300) in flaky_call
FLAKY_SLEEP == 300

StepFunctions ==
    {"order_received", "order_validated", "order_shipped", "package_prepared",
     "carrier_dispatched"}
\* Orders a step function may be called with: the received order, and one
\* whose item list is empty.
Payloads == {ReceivedOrder, [ReceivedOrder EXCEPT !.items = 0]}

\* The steps in the order in which run and ShippingWorkflow.run invoke them.
RunSteps ==
    <<"order_received", "order_validated", "payment_charged",
      "package_prepared", "carrier_dispatched", "order_shipped">>
StepIndex(f) == CHOOSE n \in 1..Len(RunSteps) : RunSteps[n] = f

\* The value a step function writes into orders.state.
RowStateOf(f) ==
    CASE f = "order_received" -> "RECEIVED"
      [] f = "order_validated" -> "VALIDATED"
      [] f = "payment_charged" -> "PAID"
      [] f = "package_prepared" -> "PACKAGE_PREPARED"
      [] f = "carrier_dispatched" -> "CARRIER_DISPATCHED"
      [] f = "order_shipped" -> "SHIPPED"

\* The row after a step function's write: order_received inserts with ON
\* CONFLICT DO NOTHING, every other function runs UPDATE orders SET state =
\* ... WHERE id = ..., whatever the state was.
Written(f, row) ==
    IF f = "order_received"
    THEN IF row = NONE THEN "RECEIVED" ELSE row
    ELSE IF row = NONE THEN NONE ELSE RowStateOf(f)

\* The row as it is when run invokes the step for the first time.
PriorRow(f) ==
    IF f = "order_received" THEN NONE
    ELSE RowStateOf(RunSteps[StepIndex(f) - 1])

InitStep ==
    /\ InitSaga /\ InitDB
    /\ fn \in StepFunctions
    /\ payload \in Payloads
    /\ clock = 0
    /\ att = <<>>
    /\ exec = "running"
    /\ eventRows = 0
    /\ orderRow = PriorRow(fn)
    /\ asleep = {}
    /\ shipTry = 0
    /\ elapsed = 0

NewAttempt == [pc |-> "flaky", start |-> clock, timedOut |-> FALSE, err |-> NONE]

\* The attempt the executor is waiting for, if any.
Live(k) ==
    /\ k = Len(att)
    /\ ~att[k].timedOut
    /\ att[k].pc \in {"flaky", "sleeping", "body"}

\* The executor starts the first attempt, or the next one after the previous
\* attempt raised or was given up on, while the execution's budget lasts.
StartAttempt ==
    /\ exec = "running"
    /\ clock < ACTIVITY_SCHEDULE_TO_CLOSE
    /\ Len(att) < MaxTries
    /\ att # <<>> => ~Live(Len(att))
    /\ att' = Append(att, NewAttempt)
    /\ UNCHANGED <<fn, payload, clock, exec, eventRows>>
    /\ UNCHANGED <<sagaVars, dbVars, rowVars, elapsed>>

\* flaky_call: rand_num < 0.33, raise RuntimeError
FlakyRaise(k) ==
    /\ att[k].pc = "flaky"
    /\ att' = [att EXCEPT ![k].pc = "raised", ![k].err = "RuntimeError"]
    /\ UNCHANGED <<fn, payload, clock, exec, eventRows>>
    /\ UNCHANGED <<sagaVars, dbVars, rowVars, elapsed>>

\* flaky_call: rand_num < 0.67, await asyncio.sleep(300)
FlakySleep(k) ==
    /\ att[k].pc = "flaky"
    /\ att' = [att EXCEPT ![k].pc = "sleeping"]
    /\ UNCHANGED <<fn, payload, clock, exec, eventRows>>
    /\ UNCHANGED <<sagaVars, dbVars, rowVars, elapsed>>

\* flaky_call: else, succeed immediately
FlakyPass(k) ==
    /\ att[k].pc = "flaky"
    /\ att' = [att EXCEPT ![k].pc = "body"]
    /\ UNCHANGED <<fn, payload, clock, exec, eventRows>>
    /\ UNCHANGED <<sagaVars, dbVars, rowVars, elapsed>>

\* The sleep of flaky_call is over and the function goes on.
FlakyWake(k) ==
    /\ att[k].pc = "sleeping"
    /\ clock = att[k].start + FLAKY_SLEEP
    /\ att' = [att EXCEPT ![k].pc = "body"]
    /\ UNCHANGED <<fn, payload, clock, exec, eventRows>>
    /\ UNCHANGED <<sagaVars, dbVars, rowVars, elapsed>>

\* if not order.get("items"): raise ValueError("No items to validate")
Rejects == fn = "order_validated" /\ payload.items = 0

\* The rest of the step function: the rejection of order_validated, or the
\* transaction that writes the event row, and the return.  The executor
\* takes the result of the attempt it is waiting for.
StepBody(k) ==
    /\ att[k].pc = "body"
    /\ IF Rejects
       THEN /\ att' = [att EXCEPT ![k].pc = "raised", ![k].err = "ValueError"]
            /\ UNCHANGED <<exec, eventRows>>
       ELSE /\ att' = [att EXCEPT ![k].pc = "returned"]
            /\ eventRows' = eventRows + 1
            /\ exec' = IF exec = "running" /\ Live(k) THEN "completed" ELSE exec
    /\ orderRow' = IF Rejects THEN orderRow ELSE Written(fn, orderRow)
    /\ UNCHANGED <<fn, payload, clock, asleep, shipTry>>
    /\ UNCHANGED <<sagaVars, dbVars, elapsed>>

\* A timeout of activity_opts() is due.
ScheduleToCloseDue == clock >= ACTIVITY_SCHEDULE_TO_CLOSE
StartToCloseDue ==
    /\ att # <<>>
    /\ Live(Len(att))
    /\ clock >= att[Len(att)].start + ACTIVITY_START_TO_CLOSE

\* A due timeout fires: at schedule-to-close the execution is over and the
\* workflow is told it timed out; at start-to-close alone the attempt is
\* given up on and may be followed by another.
StepTimeout ==
    /\ exec = "running"
    /\ ScheduleToCloseDue \/ StartToCloseDue
    /\ IF ScheduleToCloseDue
       THEN exec' = "timed_out" /\ UNCHANGED att
       ELSE att' = [att EXCEPT ![Len(att)].timedOut = TRUE] /\ UNCHANGED exec
    /\ UNCHANGED <<fn, payload, clock, eventRows>>
    /\ UNCHANGED <<sagaVars, dbVars, rowVars, elapsed>>

\* Time passes, never past a due timeout or the end of a sleep.
StepTick ==
    /\ exec = "running" => ~(ScheduleToCloseDue \/ StartToCloseDue)
    /\ \A k \in 1..Len(att) :
          att[k].pc = "sleeping" => clock < att[k].start + FLAKY_SLEEP
    /\ exec = "running" \/ \E k \in 1..Len(att) : att[k].pc = "sleeping"
    /\ clock' = clock + 1
    /\ UNCHANGED <<fn, payload, att, exec, eventRows>>
    /\ UNCHANGED <<sagaVars, dbVars, rowVars, elapsed>>

NextStep ==
    \/ StartAttempt
    \/ StepTimeout
    \/ StepTick
    \/ \E k \in 1..Len(att) : FlakyRaise(k)
    \/ \E k \in 1..Len(att) : FlakySleep(k)
    \/ \E k \in 1..Len(att) : FlakyPass(k)
    \/ \E k \in 1..Len(att) : FlakyWake(k)
    \/ \E k \in 1..Len(att) : StepBody(k)

SpecStep == InitStep /\ [][NextStep]_vars

\* ------------------------------------- the order row over one run's steps
\* The executions of one run, one after the other in the order in which run
\* and the shipping sub-sagas invoke them, each run by the executor as above,
\* and the value they leave in orders.state.
ShippingSteps == {"package_prepared", "carrier_dispatched"}

\* An attempt the executor gave up on that has not finished: it still
\* reaches its writes unless flaky_call raises.
Unfinished == \E k \in 1..Len(att) : att[k].pc \in {"flaky", "sleeping", "body"}

\* No further step will be invoked: mark-shipped returned, or a step of run
\* failed, or the third shipping attempt failed.
RunOver ==
    \/ exec = "completed" /\ fn = "order_shipped"
    \/ exec = "timed_out" /\ fn \notin ShippingSteps
    \/ exec = "timed_out" /\ shipTry = max_shipping_retries - 1

\* The step returned and run (or the sub-saga) invokes the next one.
StepReturned ==
    /\ exec = "completed"
    /\ fn # "order_shipped"
    /\ fn' = RunSteps[StepIndex(fn) + 1]
    /\ att' = <<>>
    /\ clock' = 0
    /\ exec' = "running"
    /\ eventRows' = 0
    /\ UNCHANGED <<payload, orderRow, asleep, shipTry>>
    /\ UNCHANGED <<sagaVars, dbVars, elapsed>>

\* A step of a shipping sub-saga failed: the sub-saga raises, the parent
\* sleeps 2 s and starts the next sub-saga, which begins with prepare.  The
\* abandoned attempt of the failed step is left behind, unfinished.
ShippingRetry ==
    /\ exec = "timed_out"
    /\ fn \in ShippingSteps
    /\ shipTry < max_shipping_retries - 1
    /\ shipTry' = shipTry + 1
    /\ asleep' = IF Unfinished THEN asleep \cup {fn} ELSE asleep
    /\ fn' = "package_prepared"
    /\ att' = <<>>
    /\ clock' = 0
    /\ exec' = "running"
    /\ eventRows' = 0
    /\ UNCHANGED <<payload, orderRow>>
    /\ UNCHANGED <<sagaVars, dbVars, elapsed>>

\* An attempt left behind by an earlier shipping sub-saga comes back from
\* the 300 s sleep of flaky_call and runs its transaction.  By then the run
\* is over: what is left of it after a shipping step timed out takes at most
\* two more sub-sagas, two sleeps and the mark-shipped step.
LateWrite(f) ==
    /\ f \in asleep
    /\ RunOver
    /\ orderRow' = Written(f, orderRow)
    /\ asleep' = asleep \ {f}
    /\ UNCHANGED <<fn, payload, clock, att, exec, eventRows, shipTry>>
    /\ UNCHANGED <<sagaVars, dbVars, elapsed>>

NextRow ==
    \/ StartAttempt
    \/ StepTimeout
    \/ StepTick /\ (exec = "running" \/ RunOver)
    \/ \E k \in 1..Len(att) : FlakyRaise(k)
    \/ \E k \in 1..Len(att) : FlakySleep(k)
    \/ \E k \in 1..Len(att) : FlakyPass(k)
    \/ \E k \in 1..Len(att) : FlakyWake(k)
    \/ \E k \in 1..Len(att) : StepBody(k)
    \/ StepReturned
    \/ ShippingRetry
    \/ \E f \in ShippingSteps : LateWrite(f)

SpecRow == Init /\ [][NextRow]_vars

\* ------------------------------------- a run started with a run timeout
\* start_order (api/server.py) and the CLI start every run with
\* run_timeout = 15 s.  When that time is up the server closes the execution
\* as timed out: no code of run executes any more, not even its except
\* clause, and the caller's handle.result() raises.
RunTimeoutAfterApproval == APPROVAL_TIMEOUT + 1
RUN_TIMEOUT == 15
RunTimeoutText == "WorkflowTimeout"
RunTimedOut == pc = "failed" /\ failure = RunTimeoutText

\* One time unit passes in wait_condition, of the wait's timer and of the run.
ApiTick ==
    /\ pc = "wait"
    /\ ~WaitCondition
    /\ waited < APPROVAL_TIMEOUT
    /\ elapsed < RUN_TIMEOUT
    /\ waited' = waited + 1
    /\ elapsed' = elapsed + 1
    /\ UNCHANGED <<state, last_error, pc, order, attempt, shipping_result,
                   result, failure, tries, children, chargeCalls>>
    /\ UNCHANGED sigVars /\ UNCHANGED <<dbVars, execVars>>

\* The time by which the step in flight is over at the latest: receive and
\* validate each within their 4 s schedule-to-close; for the later steps, the
\* sub-sagas and the retry sleep only the end of the run is taken as limit.
StepDeadline ==
    CASE pc = "receive" -> ACTIVITY_SCHEDULE_TO_CLOSE
      [] pc = "validate" ->
            ACTIVITY_SCHEDULE_TO_CLOSE + ACTIVITY_SCHEDULE_TO_CLOSE
      [] OTHER -> RUN_TIMEOUT

\* One time unit passes while a step, a sub-saga or the retry sleep is in
\* flight.
ApiStepTime ==
    /\ pc \in StepPcs \cup {"ship", "sleep"}
    /\ elapsed < StepDeadline
    /\ elapsed < RUN_TIMEOUT
    /\ elapsed' = elapsed + 1
    /\ UNCHANGED sagaVars /\ UNCHANGED <<dbVars, execVars>>

\* The run timeout is up while the run has not ended.
RunTimeout ==
    /\ ~Ended
    /\ elapsed >= RUN_TIMEOUT
    /\ pc' = "failed"
    /\ failure' = RunTimeoutText
    /\ UNCHANGED <<state, last_error, order, attempt, shipping_result, result,
                   tries, waited, children, chargeCalls>>
    /\ UNCHANGED sigVars /\ UNCHANGED <<dbVars, stepVars>>

\* The run's own steps; the wait's timer runs with the run's time (ApiTick).
\* The approval timeout is left out because it is never enabled here, which
\* is what the claim about it states.
NextApi ==
    \/ cancel_order
    \/ approve_order
    \/ signal_refused
    \/ RunStart
    \/ StepRetry
    \/ StepFail
    \/ ReceiveOK
    \/ ValidateOK
    \/ WaitPark
    \/ WaitResume
    \/ ChargeOK
    \/ ShipStart
    \/ ShipPrepareOK
    \/ ShipDispatchOK
    \/ ShipStepRetry
    \/ ShipStepFail
    \/ ChildDone
    \/ ChildFailed
    \/ RetrySleepDone
    \/ MarkOK
    \/ ApiTick
    \/ ApiStepTime
    \/ RunTimeout

SpecApi == Init /\ [][NextApi]_vars

\* ================================================================ claims
ChainEdges ==
    {<<"INIT", "RECEIVING">>, <<"RECEIVING", "VALIDATING">>,
     <<"VALIDATING", "AWAITING_MANUAL_APPROVAL">>,
     <<"AWAITING_MANUAL_APPROVAL", "CHARGING_PAYMENT">>,
     <<"CHARGING_PAYMENT", "SHIPPING">>, <<"SHIPPING", "MARKING_SHIPPED">>,
     <<"MARKING_SHIPPED", "COMPLETED">>}
DepartureEdges ==
    {<<"RECEIVING", "CANCELLED">>, <<"VALIDATING", "CANCELLED">>,
     <<"AWAITING_MANUAL_APPROVAL", "CANCELLED">>,
     <<"SHIPPING", "SHIPPING_FAILED">>}

\* C1: every change of the phase is one edge of the chain INIT -> RECEIVING
\* -> VALIDATING -> AWAITING_MANUAL_APPROVAL -> CHARGING_PAYMENT -> SHIPPING
\* -> MARKING_SHIPPED -> COMPLETED, or a departure to CANCELLED from
\* RECEIVING / VALIDATING / AWAITING_MANUAL_APPROVAL, or to SHIPPING_FAILED
\* from SHIPPING.
C1_PhaseChain ==
    [][state' # state => <<state, state'>> \in ChainEdges \cup DepartureEdges]_vars

\* A run that walked the whole chain, with all three shipping attempts used.
C1_Witness == state = "COMPLETED" /\ Len(children) = max_shipping_retries

\* C2: a run whose phase is CANCELLED, or that returned "CANCELLED", never
\* invoked the charge-payment step.
C2_PaymentExcludesCancel ==
    (state = "CANCELLED" \/ result = "CANCELLED") => chargeCalls = 0

\* Both outcomes next to cancel signals: a cancelled run, and (here) a run
\* that charged, received cancels afterwards and returned.
C2_Witness ==
    /\ chargeCalls > 0
    /\ "CHARGING_PAYMENT" \in cancelSeenIn
    /\ pc = "done"

\* C3: per payment token at most one payment row is ever committed, the PAID
\* update and the PAYMENT_CHARGED event are committed at most once, and all
\* invocations that returned for the token returned the same status/amount.
C3_ChargeOnce ==
    /\ \A t \in Tokens :
          /\ Len(payments[t]) <= 1
          /\ paidUpdates[t] <= 1
          /\ chargedEvents[t] <= 1
    /\ \A i, j \in Invocations :
          (/\ inv[i].pc = "returned" /\ inv[j].pc = "returned"
           /\ inv[i].token = inv[j].token)
          => inv[i].ret = inv[j].ret

\* Two invocations for one token, carrying different orders, both returned.
C3_Witness ==
    \E i, j \in Invocations :
        /\ i # j
        /\ inv[i].pc = "returned" /\ inv[j].pc = "returned"
        /\ inv[i].token = inv[j].token
        /\ inv[i].order # inv[j].order

\* Phases in which the claims call a cancel late.
LatePhases == {"CHARGING_PAYMENT", "SHIPPING", "MARKING_SHIPPED", "COMPLETED"}

\* C4: a cancel delivered in CHARGING_PAYMENT, SHIPPING, MARKING_SHIPPED or
\* COMPLETED leaves phase, cancelled flag, approved flag, pending address and
\* last error as they were, and a run that received such a cancel and
\* returned ended COMPLETED with result "DISPATCHED".
C4_LateCancelNoEffect ==
    /\ [][(cancel_order /\ state \in LatePhases)
            => UNCHANGED <<state, order_cancelled, manual_review_approved,
                           updated_address, last_error>>]_vars
    /\ []((pc = "done" /\ cancelSeenIn \cap LatePhases # {})
            => (state = "COMPLETED" /\ result = "DISPATCHED"
                /\ ~order_cancelled))

\* A completed run that received a cancel in each of the three late phases
\* in which a signal can still be delivered.
C4_Witness ==
    /\ {"CHARGING_PAYMENT", "SHIPPING", "MARKING_SHIPPED"} \subseteq cancelSeenIn
    /\ state = "COMPLETED"
    /\ result = "DISPATCHED"

\* C5: in every state whose phase is CHARGING_PAYMENT or later, and in every
\* state after the charge step was invoked, the approval flag is set.
C5_ApprovedBeforeCharge ==
    (\/ state \in {"CHARGING_PAYMENT", "SHIPPING", "SHIPPING_FAILED",
                   "MARKING_SHIPPED", "COMPLETED"}
     \/ chargeCalls > 0)
    => manual_review_approved

\* The charge step in flight, with the approval flag set.
C5_Witness ==
    /\ state = "CHARGING_PAYMENT" /\ pc = "charge" /\ chargeCalls > 0
    /\ manual_review_approved

\* Phases the specification calls terminal.
TerminalPhases == {"COMPLETED", "CANCELLED", "FAILED", "SHIPPING_FAILED"}
\* Phases in which a run that raised is left.
FailedInPhases ==
    {"RECEIVING", "VALIDATING", "AWAITING_MANUAL_APPROVAL", "CHARGING_PAYMENT",
     "SHIPPING_FAILED", "MARKING_SHIPPED"}

TimedOut == pc = "failed" /\ failure = TimeoutErrorText

PhaseOfFailure(text) ==
    CASE text = ActivityErrorText("receive") -> "RECEIVING"
      [] text = ActivityErrorText("validate") -> "VALIDATING"
      [] text = TimeoutErrorText -> "AWAITING_MANUAL_APPROVAL"
      [] text = ActivityErrorText("charge") -> "CHARGING_PAYMENT"
      [] text = ExhaustedErrorText -> "SHIPPING_FAILED"
      [] text = ActivityErrorText("mark") -> "MARKING_SHIPPED"
      [] OTHER -> "?"

CancelledInWait == "AWAITING_MANUAL_APPROVAL" \in cancelSeenIn

\* C9: once a cancel was delivered in AWAITING_MANUAL_APPROVAL the cancelled
\* flag is set, the run ends, and it can only end by returning "CANCELLED"
\* with phase CANCELLED; and the phase is CANCELLED only with the flag set.
C9_CancelInWait ==
    /\ [](CancelledInWait
            => (/\ order_cancelled
                /\ state \in {"AWAITING_MANUAL_APPROVAL", "CANCELLED"}
                /\ Ended => (/\ pc = "done"
                             /\ result = "CANCELLED"
                             /\ state = "CANCELLED")))
    /\ [](state = "CANCELLED" => order_cancelled)
    /\ (CancelledInWait ~> (pc = "done" /\ result = "CANCELLED"))

\* Cancel delivered in the approval wait with no approve ever delivered, and
\* the run returned "CANCELLED".
C9_Witness ==
    /\ cancelSeenIn = {"AWAITING_MANUAL_APPROVAL"}
    /\ ~manual_review_approved
    /\ pc = "done" /\ result = "CANCELLED" /\ state = "CANCELLED"

\* A cancel was delivered before or during RECEIVING, or during VALIDATING.
CancelledEarly == cancelSeenIn \cap {"INIT", "RECEIVING", "VALIDATING"} # {}

\* C10 as claimed: after such a cancel the run does not end as a failure and
\* never reaches the approval wait or a later phase.
C10_Original ==
    CancelledEarly
    => (/\ pc # "failed"
        /\ state \in {"INIT", "RECEIVING", "VALIDATING", "CANCELLED"})

\* C10 amended: after a cancel delivered before or during RECEIVING the phase
\* never gets past RECEIVING, after one delivered during VALIDATING never
\* past VALIDATING, except to CANCELLED; payment is never charged; the run
\* returns only "CANCELLED", and it ends as a failure only by the failure of
\* the step that was in flight (receive, for a cancel before the run began).
C10_EarlyCancel ==
    /\ (cancelSeenIn \cap {"INIT", "RECEIVING"} # {})
         => (/\ state \in {"INIT", "RECEIVING", "CANCELLED"}
             /\ pc = "failed" => failure = ActivityErrorText("receive"))
    /\ ("VALIDATING" \in cancelSeenIn)
         => (/\ state \in {"VALIDATING", "CANCELLED"}
             /\ pc = "failed" => failure = ActivityErrorText("validate"))
    /\ CancelledEarly
         => (/\ order_cancelled
             /\ chargeCalls = 0
             /\ pc = "done" => (result = "CANCELLED" /\ state = "CANCELLED"))

\* A cancel delivered during VALIDATING, the validate step succeeded, and the
\* run returned "CANCELLED".
C10_Witness ==
    /\ cancelSeenIn = {"VALIDATING"}
    /\ pc = "done" /\ result = "CANCELLED" /\ state = "CANCELLED"

\* The first approve was delivered while the run was parked in the approval
\* wait.
ApprovedInWait == approvedIn = "AWAITING_MANUAL_APPROVAL"

\* The happy ending: result "DISPATCHED", phase COMPLETED, approved, not
\* cancelled.
Dispatched ==
    /\ pc = "done"
    /\ result = "DISPATCHED"
    /\ status.state = "COMPLETED"
    /\ status.manual_review_approved
    /\ ~status.cancelled

\* C11: while the run is parked in the approval wait and no approve was
\* delivered, status reports AWAITING_MANUAL_APPROVAL with the approved flag
\* false; once the first approve was delivered in that wait, the run ends as a
\* failure of a step, or a cancel was accepted, or it ends with result
\* "DISPATCHED", phase COMPLETED, approved flag true, cancelled flag false;
\* and it never returns otherwise unless a cancel was accepted.
C11_ApprovedRunDispatches ==
    /\ []((pc = "wait" /\ approvedIn = NONE)
            => (/\ status.state = "AWAITING_MANUAL_APPROVAL"
                /\ ~status.manual_review_approved))
    /\ []((ApprovedInWait /\ pc = "done" /\ ~order_cancelled) => Dispatched)
    /\ (ApprovedInWait ~> (pc = "failed" \/ order_cancelled \/ Dispatched))

\* Approve delivered in the approval wait, no cancel ever sent, no step or
\* shipping attempt failed, and the run returned "DISPATCHED".
C11_Witness ==
    /\ ApprovedInWait
    /\ cancelSeenIn = {}
    /\ last_error = NONE /\ Len(children) = 1
    /\ Dispatched

\* Attempts 1 and 2 of the shipping sub-saga failed and attempt 3 succeeded.
ThirdAttemptSucceeded ==
    /\ Len(children) = 3
    /\ children[1].pc = "failed" /\ children[2].pc = "failed"
    /\ children[3].pc = "done"

AllAttemptsFailed ==
    /\ Len(children) = 3
    /\ \A k \in 1..3 : children[k].pc = "failed"

\* C13: when the third shipping attempt has failed the parent's next step
\* sets the phase to SHIPPING_FAILED and raises, so that the ended run has no
\* result and last_error holds the exhaustion text; the phase is
\* SHIPPING_FAILED only then, and MARKING_SHIPPED / COMPLETED are never
\* reached afterwards; after a single failed attempt, while the parent sleeps
\* before the next one, the phase is still SHIPPING and last_error holds the
\* per-attempt text, which the exhaustion text never equals.
C13_ShippingExhausted ==
    /\ [][(pc = "ship" /\ AllAttemptsFailed /\ pc' # pc)
            => (/\ state' = "SHIPPING_FAILED"
                /\ pc' = "failed"
                /\ last_error' = ExhaustedErrorText)]_vars
    /\ [](state = "SHIPPING_FAILED"
            <=> (AllAttemptsFailed /\ pc = "failed"))
    /\ [](state = "SHIPPING_FAILED"
            => (/\ last_error = ExhaustedErrorText
                /\ failure = ExhaustedErrorText
                /\ result = NONE))
    /\ [](AllAttemptsFailed => state \in {"SHIPPING", "SHIPPING_FAILED"})
    /\ [](pc = "sleep"
            => (/\ state = "SHIPPING"
                /\ attempt + 1 = Len(children)
                /\ last_error = AttemptErrorText(attempt + 1)
                /\ last_error # ExhaustedErrorText))
    /\ [](last_error = ExhaustedErrorText => state = "SHIPPING_FAILED")

\* The run that failed by shipping exhaustion.
C13_Witness ==
    /\ AllAttemptsFailed
    /\ state = "SHIPPING_FAILED" /\ pc = "failed"
    /\ last_error = ExhaustedErrorText

\* Phases in which the claims let update_address take effect.
AddressAcceptedIn == {"RECEIVING", "VALIDATING", "AWAITING_MANUAL_APPROVAL"}

\* C14: the pending address override changes only by an update_address
\* delivered while the phase is RECEIVING, VALIDATING or
\* AWAITING_MANUAL_APPROVAL; delivered in any other phase the signal leaves
\* the override unchanged.
C14_Original ==
    [][updated_address' # updated_address => state \in AddressAcceptedIn]_vars

\* The charge step in flight with a pending override that differs from the
\* address merged into the payload: the override was replaced after the merge,
\* by an update_address delivered in CHARGING_PAYMENT.
C14_Witness ==
    /\ state = "CHARGING_PAYMENT" /\ pc = "charge"
    /\ updated_address # NoAddress
    /\ order.address # updated_address

\* Phases from the charge step on, in which the payload has been built.
PayloadPhases ==
    {"CHARGING_PAYMENT", "SHIPPING", "SHIPPING_FAILED", "MARKING_SHIPPED",
     "COMPLETED"}

\* C15: the step of the run that leaves the approval wait for the charge step
\* puts the pending address override (the address last accepted up to then)
\* into the order payload; from then on the payload never changes, so the
\* charge step, every shipping attempt and the mark-shipped step are passed
\* that same payload; and an update_address delivered in SHIPPING or later
\* changes neither the override nor any payload.
C15_AddressInPayload ==
    /\ [][(pc \in {"wait0", "wait"} /\ pc' = "charge")
            => (/\ order'.address = updated_address
                /\ order'.order_id = order.order_id
                /\ order'.items = order.items)]_vars
    /\ [][(state \in PayloadPhases) => UNCHANGED order]_vars
    /\ [](\A k \in 1..Len(children) : children[k].order = order)
    /\ [][((\E a \in Addresses : update_address(a))
             /\ state \in {"SHIPPING", "MARKING_SHIPPED", "COMPLETED"})
            => UNCHANGED <<updated_address, order, children>>]_vars

\* A completed run, approved in the wait, whose two shipping attempts both
\* carried the address merged from an accepted update_address.
C15_Witness ==
    /\ state = "COMPLETED"
    /\ approvedIn = "AWAITING_MANUAL_APPROVAL"
    /\ order.address \in Addresses
    /\ Len(children) = 2
    /\ \A k \in 1..2 : children[k].order.address = order.address

\* C16: the pending address override always equals the address of the
\* update_address accepted last (none while none was accepted), status()
\* reports exactly that address, and the state right after an accepted
\* update_address(a) reports a.
C16_LastWriteWins ==
    /\ [](updated_address = lastAccepted
          /\ status.updated_address = lastAccepted)
    /\ [][\A a \in Addresses :
            (update_address(a) /\ state \notin AddressRejectedIn)
            => (updated_address' = a /\ lastAccepted' = a)]_vars

\* The charge step in flight after an approval in the wait: the override,
\* status() and the payload all carry address 2, the one accepted last.
C16_Witness ==
    /\ state = "CHARGING_PAYMENT" /\ pc = "charge"
    /\ approvedIn = "AWAITING_MANUAL_APPROVAL"
    /\ lastAccepted = 2
    /\ status.updated_address = 2
    /\ order.address = 2

\* C17: in every phase in which a signal can be delivered approve_order can
\* be delivered, and it sets the approved flag and changes no other field of
\* the saga, no local of the run and nothing of the ledger; delivered when
\* the flag is already set it changes nothing at all, so the run goes on
\* from the very same state as after one delivery.
C17_ApproveIdempotent ==
    /\ [](Parked => ENABLED approve_order)
    /\ [][approve_order
            => (/\ manual_review_approved'
                /\ UNCHANGED <<state, last_error, order_cancelled,
                               updated_address, pc, order, attempt,
                               shipping_result, result, failure, tries,
                               waited, children, chargeCalls, dbVars>>)]_vars
    /\ [][(approve_order /\ manual_review_approved) => UNCHANGED vars]_vars

\* A run first approved while VALIDATING that went on to COMPLETED.
C17_Witness ==
    /\ approvedIn = "VALIDATING"
    /\ manual_review_approved
    /\ state = "COMPLETED" /\ result = "DISPATCHED"

\* C18: an invocation of payment_charged whose existence check runs when its
\* token already has a committed payment row goes from the check straight to
\* its end: it returns exactly the status and amount of the stored row (or
\* the transaction is lost and it raises), it never reaches the INSERT, and
\* the payments rows, the PAID updates and the PAYMENT_CHARGED events stay as
\* they are.
C18_SecondChargeReturnsStored ==
    [][\A i \in Invocations :
         (/\ inv[i].pc = "select"
          /\ payments[inv[i].token] # <<>>
          /\ inv'[i] # inv[i])
         => (/\ UNCHANGED <<payments, paidUpdates, chargedEvents>>
             /\ inv'[i].pc \in {"returned", "raised"}
             /\ inv'[i].pc = "returned"
                  => inv'[i].ret =
                       [status |-> payments[inv[i].token][1].status,
                        amount |-> payments[inv[i].token][1].amount])]_vars

\* A second invocation for a charged token returned the stored amount, which
\* differs from the amount of the order it was called with, and the token
\* still has one row, one PAID update and one event.
C18_Witness ==
    \E i \in Invocations :
        /\ inv[i].pc = "returned"
        /\ inv[i].ret.amount # inv[i].amount
        /\ inv[i].ret = [status |-> "CHARGED",
                         amount |-> payments[inv[i].token][1].amount]
        /\ Len(payments[inv[i].token]) = 1
        /\ paidUpdates[inv[i].token] = 1
        /\ chargedEvents[inv[i].token] = 1

\* C19: when an invocation that passed the existence check with no row reaches
\* its INSERT after another invocation has committed a row for the same
\* token, it returns the status and amount of that stored row and raises no
\* error.
C19_Original ==
    [][\A i \in Invocations :
         (ChargeInsert(i) /\ payments[inv[i].token] # <<>>)
         => (/\ inv'[i].pc = "returned"
             /\ inv'[i].ret =
                  [status |-> payments[inv[i].token][1].status,
                   amount |-> payments[inv[i].token][1].amount])]_vars

\* Two invocations for one token both passed the existence check before
\* either committed; one has committed and returned, the other is at its
\* INSERT.
C19_Witness ==
    \E i, j \in Invocations :
        /\ i # j /\ inv[i].token = inv[j].token
        /\ inv[i].pc = "returned" /\ inv[i].ret = FreshResult(i)
        /\ Len(payments[inv[i].token]) = 1
        /\ inv[j].pc = "insert"

\* An activity or the shipping sub-saga is in flight.
StepInFlight == pc \in {"receive", "validate", "charge", "ship", "mark"}

FinalPhases == {"COMPLETED", "CANCELLED", "SHIPPING_FAILED"}

C22_StatusIsPureRead ==
    /\ [](ENABLED status_query)
    /\ [](/\ DOMAIN status = {"state", "last_error", "cancelled",
                              "updated_address", "manual_review_approved"}
          /\ status.state = state /\ status.state \in Phases
          /\ status.last_error = last_error
          /\ status.cancelled = order_cancelled
          /\ status.manual_review_approved = manual_review_approved
          /\ status.updated_address = updated_address)
    /\ [][status_query => UNCHANGED vars]_vars

\* An ended run, failed by the approval timeout, whose status is served: it
\* reports the approval phase, the timeout text and both flags false.
C22_Witness ==
    /\ pc = "failed"
    /\ ENABLED status_query
    /\ status.state = "AWAITING_MANUAL_APPROVAL"
    /\ status.last_error = TimeoutErrorText
    /\ ~status.cancelled /\ ~status.manual_review_approved

\* C23: one execution of a step function commits at most one event row,
\* whatever its attempts do (raise and be retried, sleep through the timeout
\* and go on afterwards), and exactly one when the workflow is told that the
\* step completed.
C23_WritesOnce ==
    /\ eventRows <= 1
    /\ exec = "completed" => eventRows = 1

\* A first attempt raised, the second slept through the timeout, the
\* workflow was told the step timed out, and the second attempt's write
\* committed afterwards: one row.
C23_Witness ==
    /\ exec = "timed_out"
    /\ Len(att) = 2
    /\ att[1].pc = "raised" /\ att[2].pc = "returned"
    /\ eventRows = 1

\* C24: a signal sent while the phase is one in which cancels are not
\* eligible (CHARGING_PAYMENT, SHIPPING, MARKING_SHIPPED, COMPLETED) is
\* answered with the same "sent" as an accepted one, never with an error, and
\* does not fail the run.
C24_Original ==
    /\ [][(state \in CancelRejectedIn /\ response' # response)
            => response' = "sent"]_vars
    /\ [][(state \in CancelRejectedIn /\ Signal) => pc' # "failed"]_vars
    /\ [](state \in CancelRejectedIn => response # "error")

\* A signal sent to an order whose run has returned in COMPLETED was
\* answered with an error.
C24_Witness ==
    /\ state = "COMPLETED" /\ pc = "done"
    /\ response = "error"

ShippingEdges ==
    {<<"INIT", "PREPARING_PACKAGE">>, <<"PREPARING_PACKAGE", "DISPATCHING">>,
     <<"DISPATCHING", "DONE">>}

\* C25: the phase of every shipping sub-saga changes only along INIT ->
\* PREPARING_PACKAGE -> DISPATCHING -> DONE; its dispatch step is in flight
\* only in DISPATCHING, which is entered only from a prepare step that
\* returned; it has returned "DISPATCHED" exactly when its phase is DONE, and
\* then its last_error is unset; and a sub-saga that failed has its phase
\* still at the step that failed, with last_error set.
C25_ShippingChain ==
    /\ [][\A k \in 1..Len(children) :
            children'[k].state # children[k].state
            => <<children[k].state, children'[k].state>> \in ShippingEdges]_vars
    /\ [][\A k \in 1..Len(children) :
            (children'[k].pc = "dispatch" /\ children[k].pc # "dispatch")
            => children[k].pc = "prepare"]_vars
    /\ [](\A k \in 1..Len(children) :
            /\ children[k].pc = "start" <=> children[k].state = "INIT"
            /\ children[k].pc = "prepare"
                 => children[k].state = "PREPARING_PACKAGE"
            /\ children[k].pc = "dispatch" => children[k].state = "DISPATCHING"
            /\ children[k].result = "DISPATCHED" <=> children[k].state = "DONE"
            /\ children[k].state = "DONE"
                 => (children[k].pc = "done" /\ children[k].last_error = NONE)
            /\ children[k].result \in {NONE, "DISPATCHED"}
            /\ children[k].pc = "failed"
                 => (/\ children[k].last_error # NONE
                     /\ children[k].state
                          \in {"PREPARING_PACKAGE", "DISPATCHING"}))

\* The first sub-saga went through both steps and returned "DISPATCHED" in
\* DONE, before the parent has taken the result.
C25_Witness ==
    /\ Len(children) = 1
    /\ children[1].state = "DONE" /\ children[1].result = "DISPATCHED"
    /\ children[1].last_error = NONE
    /\ state = "SHIPPING" /\ pc = "ship"

\* The identity a shipping attempt runs under: "{order_id}-shipping-{attempt}".
ChildIdentity(c) == <<c.order.order_id, c.id>>

\* C26: a step that starts a shipping attempt adds exactly one sub-saga
\* instance, in INIT with no last error and no result, under the identity made
\* of the parent's order id and the attempt index (counted from 0); it does so
\* only when there is no earlier attempt or the latest one has failed; and no
\* two attempts of the run have the same identity.
C26_FreshAttempts ==
    /\ [][children' # children /\ Len(children') # Len(children)
            => (/\ Len(children') = Len(children) + 1
                /\ \A k \in 1..Len(children) : children'[k] = children[k]
                /\ LET c == children'[Len(children')]
                   IN  /\ c.state = "INIT" /\ c.pc = "start"
                       /\ c.last_error = NONE /\ c.result = NONE
                       /\ ChildIdentity(c)
                            = <<order'.order_id, Len(children)>>
                /\ children # <<>> => cur.pc = "failed")]_vars
    /\ [](\A j, k \in 1..Len(children) :
            ChildIdentity(children[j]) = ChildIdentity(children[k]) => j = k)

\* The second attempt has just been started, fresh, after the first failed
\* and left its error in its own instance.
C26_Witness ==
    /\ Len(children) = 2
    /\ children[1].pc = "failed" /\ children[1].last_error # NONE
    /\ children[2].state = "INIT" /\ children[2].last_error = NONE
    /\ children[2].id = 1 /\ children[1].id = 0

\* C27: an execution of a step whose attempt is still asleep when the 4-unit
\* timeout is due is never reported as completed, and it is reported to the
\* workflow as timed out (the ActivityError that makes run raise) only after
\* an attempt that was given up on for its timeout has been followed by
\* another attempt.
C27_Original ==
    /\ exec = "completed" => \E k \in 1..Len(att) : att[k].pc = "returned"
    /\ (\E k \in 1..Len(att) : att[k].pc = "sleeping" /\ Live(k))
         => exec # "completed"
    /\ (exec = "timed_out" /\ \E k \in 1..Len(att) : att[k].pc = "sleeping")
         => \E k \in 1..(Len(att) - 1) : att[k].timedOut

\* The only attempt of a step took the sleep of flaky_call and the workflow
\* has been told that the step timed out: there was no second attempt.
C27_Witness ==
    /\ exec = "timed_out"
    /\ Len(att) = 1 /\ att[1].pc = "sleeping"
    /\ clock = ACTIVITY_SCHEDULE_TO_CLOSE

C30_NoCancelFlagInLatePhases ==
    state \in LatePhases => ~order_cancelled

\* The charge step is in flight after an approval, a cancel has been
\* delivered since the phase became CHARGING_PAYMENT and none before, and the
\* flag is still false.
C30_Witness ==
    /\ state = "CHARGING_PAYMENT" /\ pc = "charge"
    /\ manual_review_approved
    /\ cancelSeenIn = {"CHARGING_PAYMENT"}
    /\ ~order_cancelled

\* C31: the validate step is invoked only by the resumption of run that
\* follows the return of the receive step; the approval wait is entered only
\* on the return of the validate step and the charge step is invoked only on
\* leaving that wait; the first shipping attempt is started only on the
\* return of the charge step; the mark-shipped step is invoked only when the
\* latest shipping attempt returned "DISPATCHED"; a retry re-invokes only the
\* step in flight; and once run has ended no step is invoked, retried or
\* started.
C31_StepOrder ==
    /\ [][(pc' = "receive" /\ pc # "receive") => pc = "start"]_vars
    /\ [][(pc' = "validate" /\ pc # "validate")
            => (pc = "receive" /\ order' = ReceivedOrder)]_vars
    /\ [][(pc' = "wait0") => pc = "validate"]_vars
    /\ [][(pc' = "charge" /\ pc # "charge")
            => (pc \in {"wait0", "wait"} /\ chargeCalls = 0)]_vars
    /\ [][chargeCalls' # chargeCalls => pc' = "charge"]_vars
    /\ [][(children = <<>> /\ children' # <<>>) => pc = "charge"]_vars
    /\ [][(pc' = "mark" /\ pc # "mark")
            => (pc = "ship" /\ cur.result = "DISPATCHED")]_vars
    /\ [][(tries' > tries) => (pc' = pc /\ tries' = tries + 1)]_vars
    /\ [][Ended => UNCHANGED <<pc, tries, chargeCalls, children, order>>]_vars

\* The mark-shipped step is being retried after the second shipping attempt
\* returned "DISPATCHED": every step of the chain has been invoked.
C31_Witness ==
    /\ pc = "mark" /\ tries = 1
    /\ Len(children) = 2 /\ children[2].result = "DISPATCHED"
    /\ chargeCalls > 0

\* The phase a shipping sub-saga is in while the given step is in flight.
ShippingPhaseOf(step) ==
    IF step = "prepare" THEN "PREPARING_PACKAGE" ELSE "DISPATCHING"

\* C32: when a step of a shipping sub-saga ends otherwise than by returning,
\* the sub-saga records that step's error in its last_error, keeps its phase
\* and has no result; a failed sub-saga never changes again, so it never
\* reaches DONE, never returns "DISPATCHED" and, if it failed in
\* PREPARING_PACKAGE, never invokes dispatch; and the parent's next step is
\* the handling of the failure (retry sleep or exhaustion), never the
\* mark-shipped step.
C32_ShippingStepFailure ==
    /\ [][\A k \in 1..Len(children) :
            (children[k].pc \in {"prepare", "dispatch"}
               /\ children'[k].pc \notin {children[k].pc, "dispatch", "done"})
            => (/\ children'[k].pc = "failed"
                /\ children'[k].last_error
                     = ActivityErrorText(children[k].pc)
                /\ children'[k].state = ShippingPhaseOf(children[k].pc)
                /\ children'[k].result = NONE)]_vars
    /\ [][\A k \in 1..Len(children) :
            children[k].pc = "failed" => children'[k] = children[k]]_vars
    /\ [](\A k \in 1..Len(children) :
            children[k].last_error # NONE => children[k].pc = "failed")
    /\ [](\A k \in 1..Len(children) :
            children[k].pc = "failed"
            => (/\ children[k].state # "DONE"
                /\ children[k].result # "DISPATCHED"
                /\ children[k].last_error = ActivityErrorText("prepare")
                     <=> children[k].state = "PREPARING_PACKAGE"
                /\ children[k].last_error = ActivityErrorText("dispatch")
                     <=> children[k].state = "DISPATCHING"))
    /\ [][(pc = "ship" /\ cur.pc = "failed" /\ pc' # pc)
            => (/\ pc' \in {"sleep", "failed"}
                /\ last_error'
                     \in {AttemptErrorText(attempt + 1), ExhaustedErrorText}
                /\ shipping_result' = NONE)]_vars

\* The first attempt failed in its prepare step, the second in its dispatch
\* step, and the parent has taken note of the second failure.
C32_Witness ==
    /\ Len(children) = 2
    /\ children[1].pc = "failed" /\ children[1].state = "PREPARING_PACKAGE"
    /\ children[2].pc = "failed" /\ children[2].state = "DISPATCHING"
    /\ pc = "sleep" /\ last_error = AttemptErrorText(2)

\* Both flags are set while run is still in the approval wait.
BothFlagsInWait ==
    /\ pc \in {"wait0", "wait"}
    /\ order_cancelled /\ manual_review_approved

\* C33: when the cancelled flag and the approved flag are both set while run
\* is in the approval wait, the resumption of run returns "CANCELLED" with
\* phase CANCELLED and does not invoke the charge step; and in every state
\* with both flags set the charge step was never invoked and a run that
\* returned returned "CANCELLED".
C33_CancelBeatsApproval ==
    /\ [][(BothFlagsInWait /\ pc' # pc)
            => (/\ pc' = "done"
                /\ state' = "CANCELLED"
                /\ result' = "CANCELLED"
                /\ chargeCalls' = 0
                /\ order' = order)]_vars
    /\ []((order_cancelled /\ manual_review_approved)
            => (/\ chargeCalls = 0
                /\ state \notin LatePhases
                /\ pc = "done" => (state = "CANCELLED" /\ result = "CANCELLED")))

\* Approve and cancel were both delivered in the approval wait and nowhere
\* else, and the run returned "CANCELLED".
C33_Witness ==
    /\ approvedIn = "AWAITING_MANUAL_APPROVAL"
    /\ cancelSeenIn = {"AWAITING_MANUAL_APPROVAL"}
    /\ manual_review_approved /\ order_cancelled
    /\ pc = "done" /\ result = "CANCELLED" /\ chargeCalls = 0

\* The first approve was delivered before run entered the approval wait.
ApprovedEarly == approvedIn \in {"INIT", "RECEIVING", "VALIDATING"}

\* C34: after an approve delivered in INIT, RECEIVING or VALIDATING the
\* approved flag stays set; run never parks in the approval wait, so no time
\* passes there and the approval timeout never ends the run; on entering the
\* wait its next step goes to CHARGING_PAYMENT and invokes the charge step,
\* and with steps making progress that step is taken.
C34_EarlyApproveRetained ==
    /\ [](ApprovedEarly
            => (/\ manual_review_approved
                /\ pc # "wait"
                /\ waited = 0
                /\ ~TimedOut))
    /\ [][(ApprovedEarly /\ pc = "wait0" /\ pc' # pc)
            => (/\ state' = "CHARGING_PAYMENT"
                /\ pc' = "charge"
                /\ chargeCalls' = 1)]_vars
    /\ ((ApprovedEarly /\ pc = "wait0") ~> (state = "CHARGING_PAYMENT"))

\* An approve delivered during RECEIVING, no cancel ever sent, and the charge
\* step in flight.
C34_Witness ==
    /\ approvedIn = "RECEIVING"
    /\ cancelSeenIn = {}
    /\ state = "CHARGING_PAYMENT" /\ pc = "charge"

\* C35: in every state whose phase is SHIPPING, MARKING_SHIPPED or COMPLETED
\* and in which status() reports a pending address, every shipping sub-saga
\* that was started was passed an order payload carrying that address.
C35_Original ==
    (state \in {"SHIPPING", "MARKING_SHIPPED", "COMPLETED"}
       /\ status.updated_address # NoAddress)
    => \A k \in 1..Len(children) :
          children[k].order.address = status.updated_address

\* A completed run whose status() reports an accepted address while the
\* payload its only shipping attempt was passed carries none: the address
\* was accepted during CHARGING_PAYMENT, after the merge.
C35_Witness ==
    /\ state = "COMPLETED" /\ pc = "done"
    /\ status.updated_address \in Addresses
    /\ Len(children) = 1
    /\ children[1].order.address = NoAddress

\* The ledger holds a payment row for the order.
HasPaymentRecord(o) ==
    \E t \in Tokens : \E n \in 1..Len(payments[t]) : payments[t][n].order_id = o

\* C36: every order whose charge step returned, which is what lets its run
\* go on to SHIPPING, has a payment row carrying its order id; in particular
\* when the charge step returned for two different orders under one token the
\* ledger holds a row for each of them.
C36_Original ==
    \A i \in Invocations :
        inv[i].pc = "returned" => HasPaymentRecord(inv[i].order)

\* The charge step returned for two different orders that were started with
\* the same token; the ledger holds the row of the first and none for the
\* second, which was answered from the first one's row.
C36_Witness ==
    \E i, j \in Invocations :
        /\ inv[i].order # inv[j].order /\ inv[i].token = inv[j].token
        /\ inv[i].pc = "returned" /\ inv[j].pc = "returned"
        /\ HasPaymentRecord(inv[i].order)
        /\ ~HasPaymentRecord(inv[j].order)
        /\ inv[j].ret.status = "CHARGED"

\* Shipping attempts that returned a result.
Succeeded == {k \in 1..Len(children) : children[k].result # NONE}

\* C37: while the parent's phase is MARKING_SHIPPED or COMPLETED its stored
\* shipping result is "DISPATCHED", it is the result of the attempt started
\* last, and no other attempt returned a result; and a run in COMPLETED has
\* returned that shipping result.
C37_ShippingResult ==
    state \in {"MARKING_SHIPPED", "COMPLETED"}
    => (/\ shipping_result = "DISPATCHED"
        /\ children # <<>>
        /\ shipping_result = cur.result
        /\ Succeeded = {Len(children)}
        /\ cur.id = attempt
        /\ state = "COMPLETED" => (pc = "done" /\ result = shipping_result))

\* A completed run whose first shipping attempt failed and whose second one
\* returned the result that the run returned.
C37_Witness ==
    /\ state = "COMPLETED"
    /\ Len(children) = 2
    /\ children[1].result = NONE /\ children[2].result = "DISPATCHED"
    /\ shipping_result = "DISPATCHED" /\ result = "DISPATCHED"

\* Shipping attempts that failed.
FailedAttempts == {k \in 1..Len(children) : children[k].pc = "failed"}

\* C38: in a run whose phase is COMPLETED, last_error is unset exactly when
\* no shipping attempt failed; when attempts failed, status() reports the
\* text recorded for the failed attempt with the highest number.
C38_CompletedKeepsShippingError ==
    state = "COMPLETED"
    => (/\ last_error = NONE <=> FailedAttempts = {}
        /\ \A n \in 1..2 :
              (FailedAttempts = 1..n)
              => status.last_error = AttemptErrorText(n)
        /\ Cardinality(FailedAttempts) <= 2
        /\ FailedAttempts = 1..(Len(children) - 1))

\* A completed run that returned "DISPATCHED" after two failed shipping
\* attempts still reports the failure of the second.
C38_Witness ==
    /\ state = "COMPLETED" /\ result = "DISPATCHED"
    /\ FailedAttempts = {1, 2}
    /\ status.last_error = AttemptErrorText(2)

\* Position of a value of orders.state in the chain RECEIVED -> VALIDATED ->
\* PAID -> PACKAGE_PREPARED -> CARRIER_DISPATCHED -> SHIPPED (0: no row).
RowRank(row) ==
    IF row = NONE THEN 0
    ELSE StepIndex(CHOOSE f \in {RunSteps[n] : n \in 1..Len(RunSteps)} :
                        RowStateOf(f) = row)

\* C39: every change of the order row's state moves it to a later value of
\* the chain RECEIVED -> VALIDATED -> PAID -> PACKAGE_PREPARED ->
\* CARRIER_DISPATCHED -> SHIPPED, never back to an earlier one.
C39_Original ==
    [][orderRow' # orderRow => RowRank(orderRow') > RowRank(orderRow)]_vars

\* A run that was marked shipped after its first shipping attempt had failed
\* on a prepare attempt that slept through the timeout; that attempt has since
\* come back and written, and the row of the shipped order says
\* PACKAGE_PREPARED.
C39_Witness ==
    /\ fn = "order_shipped" /\ exec = "completed"
    /\ shipTry = 1
    /\ asleep = {}
    /\ orderRow = "PACKAGE_PREPARED"

====
